---- MODULE Spec2Model ----
(***************************************************************************)
(* The four cache replacement policies of CacheImpl.hpp (FILO, FIFO, LFU,  *)
(* LRU) as one state machine.  A behaviour fixes one policy at             *)
(* construction and then applies put / get / clear / setCapacity to that   *)
(* one cache object.                                                       *)
(*                                                                         *)
(* A std::list is a sequence of nodes; every node carries an id standing   *)
(* for its address, and a std::list iterator is the id of the node it      *)
(* points to.  Addresses are opaque, so after each operation the nodes are *)
(* renumbered in list order (Canon); a map entry whose node is gone        *)
(* becomes Dangling.  A std::unordered_map is a function whose domain is   *)
(* the set of stored keys.                                                 *)
(***************************************************************************)
EXTENDS Integers, Sequences, FiniteSets, TLC

\* ----- bounds of the model ------------------------------------------------
NumKeys == 3
NumVals == 2
MaxCap == 2
MaxFreq == 3

Keys == 1..NumKeys
Values == 1..NumVals
Capacities == 0..MaxCap
Policies == {"FILO", "FIFO", "LFU", "LRU"}

\* id of no node: the value of an iterator whose node has been erased
Dangling == 0

VARIABLES
  policy,         \* which of the four classes the object is
  m_capacity,     \* Cache::m_capacity
  m_list,         \* FILO/FIFO/LRU: m_list, front first
  m_hashmap,      \* key -> iterator (node id)
  m_minimalFreq,  \* LFU: m_minimalFreq
  m_freqHashmap,  \* LFU: frequency -> list of nodes, front first
  ub,             \* the last call ran into undefined behaviour (back/pop on an empty list)
  last,           \* history: the last call, its arguments and its outcome (cap: what
                  \* getCapacity returned before it; tied: it removed an LFU key whose
                  \* access count a key that stayed stored had too)
  order,          \* history (LRU, LFU): stored keys by last successful get/put, oldest first
  inserted,       \* history (FILO, FIFO): stored keys by insertion as a new key, oldest first
  count           \* history (LFU): per stored key, 1 + successful gets/puts since insertion

progVars == <<m_capacity, m_list, m_hashmap, m_minimalFreq, m_freqHashmap>>
vars == <<policy, m_capacity, m_list, m_hashmap, m_minimalFreq, m_freqHashmap,
          ub, last, order, inserted, count>>

\* ----- std::unordered_map ---------------------------------------------------
MapSet(f, k, v) == [x \in (DOMAIN f) \cup {k} |-> IF x = k THEN v ELSE f[x]]
MapErase(f, k) == [x \in (DOMAIN f) \ {k} |-> f[x]]
\* operator[]: a missing key is inserted with a default-constructed (empty) list
MapIndex(f, k) == IF k \in DOMAIN f THEN f ELSE MapSet(f, k, <<>>)
EmptyMap == <<>>

\* ----- std::list --------------------------------------------------------------
Ids(l) == {l[i].id : i \in 1..Len(l)}
ListFront(l) == l[1]
ListBack(l) == l[Len(l)]
EmplaceFront(l, n) == <<n>> \o l
EmplaceBack(l, n) == Append(l, n)
PopFront(l) == SubSeq(l, 2, Len(l))
PopBack(l) == SubSeq(l, 1, Len(l) - 1)
ListErase(l, it) == SelectSeq(l, LAMBDA n : n.id # it)
ListBegin(l) == IF l = <<>> THEN Dangling ELSE l[1].id
ListLast(l) == IF l = <<>> THEN Dangling ELSE l[Len(l)].id
\* the node an iterator points to
Deref(l, it) == l[CHOOSE i \in 1..Len(l) : l[i].id = it]
\* the address of a newly allocated node: one no live node has
FreshId(used) == CHOOSE i \in 1..(Cardinality(used) + 1) : i \notin used

\* it->second = value
AssignSecond(l, it, value) ==
  [i \in 1..Len(l) |-> IF l[i].id = it THEN [l[i] EXCEPT !.second = value] ELSE l[i]]

\* std::pair<K, V> in a list node
Pair(id, key, value) == [id |-> id, first |-> key, second |-> value]
\* LFUCache::Node in a list node
Node(id, key, value, freq) == [id |-> id, m_key |-> key, m_value |-> value, m_freq |-> freq]

\* ----- the object --------------------------------------------------------------
This == [m_capacity |-> m_capacity, m_list |-> m_list, m_hashmap |-> m_hashmap,
         m_minimalFreq |-> m_minimalFreq, m_freqHashmap |-> m_freqHashmap,
         ub |-> FALSE]

\* result of get: a value, or the std::invalid_argument exception
Returned(c, v) == [c |-> c, thrown |-> FALSE, value |-> v]
KeyNotFound(c) == [c |-> c, thrown |-> TRUE, value |-> 0]

getCapacity(c) == c.m_capacity
\* setCapacity that drops the contents when the new capacity is below the size
setCapacity_shrink(c, capacity) ==
  IF capacity < Cardinality(DOMAIN c.m_hashmap)
  THEN [c EXCEPT !.m_capacity = capacity, !.m_list = <<>>, !.m_hashmap = <<>>,
                 !.m_freqHashmap = <<>>]
  ELSE [c EXCEPT !.m_capacity = capacity]

setCapacity(c, capacity) == [c EXCEPT !.m_capacity = capacity]

\* ----- FILOCache ------------------------------------------------------------------
\* FILOCache_get that moves the entry it read to the back of the list
FILOCache_get_refresh(c, key) ==
  IF key \notin DOMAIN c.m_hashmap
  THEN KeyNotFound(c)
  ELSE IF c.m_hashmap[key] \notin Ids(c.m_list)
  THEN Returned([c EXCEPT !.ub = TRUE], 0)
  ELSE LET n == Deref(c.m_list, c.m_hashmap[key])
       IN Returned([c EXCEPT !.m_list = Append(ListErase(@, n.id), n)], n.second)

FILOCache_get(c, key) ==
  IF key \notin DOMAIN c.m_hashmap
  THEN KeyNotFound(c)
  ELSE IF c.m_hashmap[key] \notin Ids(c.m_list)
  THEN Returned([c EXCEPT !.ub = TRUE], 0)
  ELSE Returned(c, Deref(c.m_list, c.m_hashmap[key]).second)

\* line 61: the key the eviction step erases, m_list.back().first
FILOCache_victim(c) == ListBack(c.m_list).first

\* FILOCache_put evicting the front of the list, as FIFOCache_put does
FILOCache_put_front(c, key, value) ==
  IF getCapacity(c) = 0 THEN c
  ELSE IF key \notin DOMAIN c.m_hashmap
  THEN LET c1 == IF Cardinality(DOMAIN c.m_hashmap) = getCapacity(c)
                 THEN [c EXCEPT !.m_hashmap = MapErase(@, ListFront(c.m_list).first),
                                !.m_list = PopFront(@)]
                 ELSE c
           l2 == EmplaceBack(c1.m_list, Pair(FreshId(Ids(c1.m_list)), key, value))
       IN [c1 EXCEPT !.m_list = l2, !.m_hashmap = MapSet(@, key, ListLast(l2))]
  ELSE [c EXCEPT !.m_list = AssignSecond(@, c.m_hashmap[key], value)]

\* FILOCache_put without the eviction step
FILOCache_put_noEvict(c, key, value) ==
  IF getCapacity(c) = 0 THEN c
  ELSE IF key \notin DOMAIN c.m_hashmap
  THEN LET l2 == EmplaceBack(c.m_list, Pair(FreshId(Ids(c.m_list)), key, value))
       IN [c EXCEPT !.m_list = l2, !.m_hashmap = MapSet(@, key, ListLast(l2))]
  ELSE [c EXCEPT !.m_list = AssignSecond(@, c.m_hashmap[key], value)]

\* FILOCache_put appending the new entry before the eviction step
FILOCache_put_insertFirst(c, key, value) ==
  IF getCapacity(c) = 0 THEN c
  ELSE IF key \notin DOMAIN c.m_hashmap
  THEN LET l1 == EmplaceBack(c.m_list, Pair(FreshId(Ids(c.m_list)), key, value))
           c1 == [c EXCEPT !.m_list = l1, !.m_hashmap = MapSet(@, key, ListLast(l1))]
       IN IF Cardinality(DOMAIN c1.m_hashmap) > getCapacity(c1)
          THEN [c1 EXCEPT !.m_hashmap = MapErase(@, FILOCache_victim(c1)),
                          !.m_list = PopBack(@)]
          ELSE c1
  ELSE [c EXCEPT !.m_list = AssignSecond(@, c.m_hashmap[key], value)]

\* FILOCache_put whose update moves the entry to the back of the list
FILOCache_put_updateMoves(c, key, value) ==
  IF getCapacity(c) = 0 THEN c
  ELSE IF key \notin DOMAIN c.m_hashmap
  THEN LET c1 == IF Cardinality(DOMAIN c.m_hashmap) = getCapacity(c)
                 THEN [c EXCEPT !.m_hashmap = MapErase(@, FILOCache_victim(c)),
                                !.m_list = PopBack(@)]
                 ELSE c
           l2 == EmplaceBack(c1.m_list, Pair(FreshId(Ids(c1.m_list)), key, value))
       IN [c1 EXCEPT !.m_list = l2, !.m_hashmap = MapSet(@, key, ListLast(l2))]
  ELSE LET l1 == ListErase(c.m_list, c.m_hashmap[key])
           l2 == EmplaceBack(l1, Pair(FreshId(Ids(l1)), key, value))
       IN [c EXCEPT !.m_list = l2, !.m_hashmap = MapSet(@, key, ListLast(l2))]

FILOCache_put(c, key, value) ==
  IF getCapacity(c) = 0 THEN c
  ELSE IF key \notin DOMAIN c.m_hashmap
  THEN IF Cardinality(DOMAIN c.m_hashmap) = getCapacity(c) /\ c.m_list = <<>>
       THEN [c EXCEPT !.ub = TRUE]
       ELSE
         LET c1 == IF Cardinality(DOMAIN c.m_hashmap) = getCapacity(c)
                   THEN [c EXCEPT !.m_hashmap = MapErase(@, FILOCache_victim(c)),
                                  !.m_list = PopBack(@)]
                   ELSE c
             l2 == EmplaceBack(c1.m_list, Pair(FreshId(Ids(c1.m_list)), key, value))
         IN [c1 EXCEPT !.m_list = l2, !.m_hashmap = MapSet(@, key, ListLast(l2))]
  ELSE IF c.m_hashmap[key] \notin Ids(c.m_list)
  THEN [c EXCEPT !.ub = TRUE]
  ELSE [c EXCEPT !.m_list = AssignSecond(@, c.m_hashmap[key], value)]

FILOCache_clear(c) == [c EXCEPT !.m_list = <<>>, !.m_hashmap = EmptyMap]

\* ----- FIFOCache ------------------------------------------------------------------
FIFOCache_get(c, key) ==
  IF key \notin DOMAIN c.m_hashmap
  THEN KeyNotFound(c)
  ELSE IF c.m_hashmap[key] \notin Ids(c.m_list)
  THEN Returned([c EXCEPT !.ub = TRUE], 0)
  ELSE Returned(c, Deref(c.m_list, c.m_hashmap[key]).second)

\* line 109: the key the eviction step erases, m_list.front().first
FIFOCache_victim(c) == ListFront(c.m_list).first

\* FIFOCache_put whose update moves the entry to the back of the queue
FIFOCache_put_reinsert(c, key, value) ==
  IF getCapacity(c) = 0 THEN c
  ELSE LET c0 == IF key \in DOMAIN c.m_hashmap
                 THEN [c EXCEPT !.m_list = ListErase(@, c.m_hashmap[key]),
                                !.m_hashmap = MapErase(@, key)]
                 ELSE c
           c1 == IF Cardinality(DOMAIN c0.m_hashmap) = getCapacity(c0)
                 THEN [c0 EXCEPT !.m_hashmap = MapErase(@, FIFOCache_victim(c0)),
                                 !.m_list = PopFront(@)]
                 ELSE c0
           l2 == EmplaceBack(c1.m_list, Pair(FreshId(Ids(c1.m_list)), key, value))
       IN [c1 EXCEPT !.m_list = l2, !.m_hashmap = MapSet(@, key, ListLast(l2))]

\* FIFOCache_put whose update leaves the old value in place
FIFOCache_put_keepOld(c, key, value) ==
  IF getCapacity(c) = 0 THEN c
  ELSE IF key \notin DOMAIN c.m_hashmap
  THEN LET c1 == IF Cardinality(DOMAIN c.m_hashmap) = getCapacity(c)
                 THEN [c EXCEPT !.m_hashmap = MapErase(@, FIFOCache_victim(c)),
                                !.m_list = PopFront(@)]
                 ELSE c
           l2 == EmplaceBack(c1.m_list, Pair(FreshId(Ids(c1.m_list)), key, value))
       IN [c1 EXCEPT !.m_list = l2, !.m_hashmap = MapSet(@, key, ListLast(l2))]
  ELSE c

FIFOCache_put(c, key, value) ==
  IF getCapacity(c) = 0 THEN c
  ELSE IF key \notin DOMAIN c.m_hashmap
  THEN IF Cardinality(DOMAIN c.m_hashmap) = getCapacity(c) /\ c.m_list = <<>>
       THEN [c EXCEPT !.ub = TRUE]
       ELSE
         LET c1 == IF Cardinality(DOMAIN c.m_hashmap) = getCapacity(c)
                   THEN [c EXCEPT !.m_hashmap = MapErase(@, FIFOCache_victim(c)),
                                  !.m_list = PopFront(@)]
                   ELSE c
             l2 == EmplaceBack(c1.m_list, Pair(FreshId(Ids(c1.m_list)), key, value))
         IN [c1 EXCEPT !.m_list = l2, !.m_hashmap = MapSet(@, key, ListLast(l2))]
  ELSE IF c.m_hashmap[key] \notin Ids(c.m_list)
  THEN [c EXCEPT !.ub = TRUE]
  ELSE [c EXCEPT !.m_list = AssignSecond(@, c.m_hashmap[key], value)]

\* FIFOCache_clear emptying the list only
FIFOCache_clear_listOnly(c) == [c EXCEPT !.m_list = <<>>]

FIFOCache_clear(c) == [c EXCEPT !.m_list = <<>>, !.m_hashmap = EmptyMap]

\* ----- LRUCache -------------------------------------------------------------------
\* LRUCache_get without the move to the front
LRUCache_get_noPromote(c, key) ==
  IF key \notin DOMAIN c.m_hashmap
  THEN KeyNotFound(c)
  ELSE IF c.m_hashmap[key] \notin Ids(c.m_list)
  THEN Returned([c EXCEPT !.ub = TRUE], 0)
  ELSE Returned(c, Deref(c.m_list, c.m_hashmap[key]).second)

\* LRUCache_get returning a default value where it should throw
LRUCache_get_default(c, key) ==
  IF key \notin DOMAIN c.m_hashmap
  THEN Returned(c, 0)
  ELSE IF c.m_hashmap[key] \notin Ids(c.m_list)
  THEN Returned([c EXCEPT !.ub = TRUE], 0)
  ELSE LET it == c.m_hashmap[key]
           l1 == EmplaceFront(c.m_list,
                   Pair(FreshId(Ids(c.m_list)), key, Deref(c.m_list, it).second))
           l2 == ListErase(l1, it)
           c2 == [c EXCEPT !.m_list = l2, !.m_hashmap = MapSet(@, key, ListBegin(l2))]
       IN Returned(c2, ListFront(l2).second)

LRUCache_get(c, key) ==
  IF key \notin DOMAIN c.m_hashmap
  THEN KeyNotFound(c)
  ELSE IF c.m_hashmap[key] \notin Ids(c.m_list)
  THEN Returned([c EXCEPT !.ub = TRUE], 0)
  ELSE LET it == c.m_hashmap[key]
           l1 == EmplaceFront(c.m_list,
                   Pair(FreshId(Ids(c.m_list)), key, Deref(c.m_list, it).second))
           l2 == ListErase(l1, it)
           c2 == [c EXCEPT !.m_list = l2, !.m_hashmap = MapSet(@, key, ListBegin(l2))]
       IN Returned(c2, ListFront(l2).second)

\* line 259: the key the eviction step erases, m_list.back().first
LRUCache_victim(c) == ListBack(c.m_list).first

\* LRUCache_put without the capacity-0 corner case, evicting only from a non-empty list
LRUCache_put_noCorner(c, key, value) ==
  IF key \notin DOMAIN c.m_hashmap
  THEN LET c1 == IF Cardinality(DOMAIN c.m_hashmap) = getCapacity(c) /\ c.m_list # <<>>
                 THEN [c EXCEPT !.m_hashmap = MapErase(@, LRUCache_victim(c)),
                                !.m_list = PopBack(@)]
                 ELSE c
           l2 == EmplaceFront(c1.m_list, Pair(FreshId(Ids(c1.m_list)), key, value))
       IN [c1 EXCEPT !.m_list = l2, !.m_hashmap = MapSet(@, key, ListBegin(l2))]
  ELSE IF c.m_hashmap[key] \notin Ids(c.m_list)
  THEN [c EXCEPT !.ub = TRUE]
  ELSE LET l1 == ListErase(c.m_list, c.m_hashmap[key])
           l2 == EmplaceFront(l1, Pair(FreshId(Ids(l1)), key, value))
       IN [c EXCEPT !.m_list = l2, !.m_hashmap = MapSet(@, key, ListBegin(l2))]

\* LRUCache_put whose update leaves the old node of the key in the list
LRUCache_put_noErase(c, key, value) ==
  IF getCapacity(c) = 0 THEN c
  ELSE IF key \notin DOMAIN c.m_hashmap
  THEN LET c1 == IF Cardinality(DOMAIN c.m_hashmap) = getCapacity(c)
                 THEN [c EXCEPT !.m_hashmap = MapErase(@, LRUCache_victim(c)),
                                !.m_list = PopBack(@)]
                 ELSE c
           l2 == EmplaceFront(c1.m_list, Pair(FreshId(Ids(c1.m_list)), key, value))
       IN [c1 EXCEPT !.m_list = l2, !.m_hashmap = MapSet(@, key, ListBegin(l2))]
  ELSE LET l2 == EmplaceFront(c.m_list, Pair(FreshId(Ids(c.m_list)), key, value))
       IN [c EXCEPT !.m_list = l2, !.m_hashmap = MapSet(@, key, ListBegin(l2))]

\* LRUCache_put evicting whenever the size has reached or passed the capacity
LRUCache_put_evictGE(c, key, value) ==
  IF getCapacity(c) = 0 THEN c
  ELSE IF key \notin DOMAIN c.m_hashmap
  THEN LET c1 == IF Cardinality(DOMAIN c.m_hashmap) >= getCapacity(c)
                 THEN [c EXCEPT !.m_hashmap = MapErase(@, LRUCache_victim(c)),
                                !.m_list = PopBack(@)]
                 ELSE c
           l2 == EmplaceFront(c1.m_list, Pair(FreshId(Ids(c1.m_list)), key, value))
       IN [c1 EXCEPT !.m_list = l2, !.m_hashmap = MapSet(@, key, ListBegin(l2))]
  ELSE IF c.m_hashmap[key] \notin Ids(c.m_list)
  THEN [c EXCEPT !.ub = TRUE]
  ELSE LET l1 == ListErase(c.m_list, c.m_hashmap[key])
           l2 == EmplaceFront(l1, Pair(FreshId(Ids(l1)), key, value))
       IN [c EXCEPT !.m_list = l2, !.m_hashmap = MapSet(@, key, ListBegin(l2))]

LRUCache_put(c, key, value) ==
  IF getCapacity(c) = 0 THEN c
  ELSE IF key \notin DOMAIN c.m_hashmap
  THEN IF Cardinality(DOMAIN c.m_hashmap) = getCapacity(c) /\ c.m_list = <<>>
       THEN [c EXCEPT !.ub = TRUE]
       ELSE
         LET c1 == IF Cardinality(DOMAIN c.m_hashmap) = getCapacity(c)
                   THEN [c EXCEPT !.m_hashmap = MapErase(@, LRUCache_victim(c)),
                                  !.m_list = PopBack(@)]
                   ELSE c
             l2 == EmplaceFront(c1.m_list, Pair(FreshId(Ids(c1.m_list)), key, value))
         IN [c1 EXCEPT !.m_list = l2, !.m_hashmap = MapSet(@, key, ListBegin(l2))]
  ELSE IF c.m_hashmap[key] \notin Ids(c.m_list)
  THEN [c EXCEPT !.ub = TRUE]
  ELSE LET l1 == ListErase(c.m_list, c.m_hashmap[key])
           l2 == EmplaceFront(l1, Pair(FreshId(Ids(l1)), key, value))
       IN [c EXCEPT !.m_list = l2, !.m_hashmap = MapSet(@, key, ListBegin(l2))]

LRUCache_clear(c) == [c EXCEPT !.m_list = <<>>, !.m_hashmap = EmptyMap]

\* ----- LFUCache -------------------------------------------------------------------
\* every node of every bucket
FreqNodes(fh) == UNION {{fh[f][i] : i \in 1..Len(fh[f])} : f \in DOMAIN fh}
FreqIds(fh) == {n.id : n \in FreqNodes(fh)}
DerefFreq(fh, it) == CHOOSE n \in FreqNodes(fh) : n.id = it

\* LFUCache_promote without the increment of m_minimalFreq
LFUCache_promote_keepMin(c, key, value) ==
  LET it == c.m_hashmap[key]
      freq == DerefFreq(c.m_freqHashmap, it).m_freq
      fh0 == MapIndex(c.m_freqHashmap, freq)
      fh1 == [fh0 EXCEPT ![freq] = ListErase(@, it)]
      fh2 == IF fh1[freq] = <<>> THEN MapErase(fh1, freq) ELSE fh1
      fh3 == MapIndex(fh2, freq + 1)
      fh4 == [fh3 EXCEPT ![freq + 1] =
                EmplaceFront(@, Node(FreshId(FreqIds(fh3)), key, value, freq + 1))]
  IN [c EXCEPT !.m_freqHashmap = fh4,
               !.m_hashmap = MapSet(@, key, ListBegin(fh4[freq + 1]))]

\* LFUCache_promote that builds the moved node with the old frequency
LFUCache_promote_oldFreq(c, key, value) ==
  LET it == c.m_hashmap[key]
      freq == DerefFreq(c.m_freqHashmap, it).m_freq
      fh0 == MapIndex(c.m_freqHashmap, freq)
      fh1 == [fh0 EXCEPT ![freq] = ListErase(@, it)]
      emptied == fh1[freq] = <<>>
      fh2 == IF emptied THEN MapErase(fh1, freq) ELSE fh1
      minFreq == IF emptied /\ c.m_minimalFreq = freq
                 THEN c.m_minimalFreq + 1 ELSE c.m_minimalFreq
      fh3 == MapIndex(fh2, freq + 1)
      fh4 == [fh3 EXCEPT ![freq + 1] =
                EmplaceFront(@, Node(FreshId(FreqIds(fh3)), key, value, freq))]
  IN [c EXCEPT !.m_freqHashmap = fh4,
               !.m_minimalFreq = minFreq,
               !.m_hashmap = MapSet(@, key, ListBegin(fh4[freq + 1]))]

\* lines 153-168 and 197-211: move the node of 'key' from bucket freq to the front
\* of bucket freq + 1, storing 'value' in it
LFUCache_promote(c, key, value) ==
  LET it == c.m_hashmap[key]
      freq == DerefFreq(c.m_freqHashmap, it).m_freq
      fh0 == MapIndex(c.m_freqHashmap, freq)
      fh1 == [fh0 EXCEPT ![freq] = ListErase(@, it)]
      emptied == fh1[freq] = <<>>
      fh2 == IF emptied THEN MapErase(fh1, freq) ELSE fh1
      minFreq == IF emptied /\ c.m_minimalFreq = freq
                 THEN c.m_minimalFreq + 1 ELSE c.m_minimalFreq
      fh3 == MapIndex(fh2, freq + 1)
      fh4 == [fh3 EXCEPT ![freq + 1] =
                EmplaceFront(@, Node(FreshId(FreqIds(fh3)), key, value, freq + 1))]
  IN [c EXCEPT !.m_freqHashmap = fh4,
               !.m_minimalFreq = minFreq,
               !.m_hashmap = MapSet(@, key, ListBegin(fh4[freq + 1]))]

LFUCache_get(c, key) ==
  IF key \notin DOMAIN c.m_hashmap
  THEN KeyNotFound(c)
  ELSE IF c.m_hashmap[key] \notin FreqIds(c.m_freqHashmap)
  THEN Returned([c EXCEPT !.ub = TRUE], 0)
  ELSE LET value == DerefFreq(c.m_freqHashmap, c.m_hashmap[key]).m_value
       IN Returned(LFUCache_promote(c, key, value), value)

\* LFUCache_evict taking the front (most recent) node of the bucket
LFUCache_evict_front(c) ==
  LET fh0 == MapIndex(c.m_freqHashmap, c.m_minimalFreq)
  IN IF fh0[c.m_minimalFreq] = <<>>
     THEN [c EXCEPT !.m_freqHashmap = fh0, !.ub = TRUE]
     ELSE LET lfu_item == ListFront(fh0[c.m_minimalFreq])
              fh1 == [fh0 EXCEPT ![c.m_minimalFreq] = PopFront(@)]
              fh2 == IF fh1[c.m_minimalFreq] = <<>>
                     THEN MapErase(fh1, c.m_minimalFreq) ELSE fh1
          IN [c EXCEPT !.m_hashmap = MapErase(@, lfu_item.m_key),
                       !.m_freqHashmap = fh2]

\* LFUCache_evict that keeps the bucket it has emptied
LFUCache_evict_keepBucket(c) ==
  LET fh0 == MapIndex(c.m_freqHashmap, c.m_minimalFreq)
  IN IF fh0[c.m_minimalFreq] = <<>>
     THEN [c EXCEPT !.m_freqHashmap = fh0, !.ub = TRUE]
     ELSE LET lfu_item == ListBack(fh0[c.m_minimalFreq])
              fh1 == [fh0 EXCEPT ![c.m_minimalFreq] = PopBack(@)]
          IN [c EXCEPT !.m_hashmap = MapErase(@, lfu_item.m_key),
                       !.m_freqHashmap = fh1]

\* lines 181-188: delete the least frequently used item in both hashmaps
LFUCache_evict(c) ==
  LET fh0 == MapIndex(c.m_freqHashmap, c.m_minimalFreq)
  IN IF fh0[c.m_minimalFreq] = <<>>
     THEN [c EXCEPT !.m_freqHashmap = fh0, !.ub = TRUE]
     ELSE LET lfu_item == ListBack(fh0[c.m_minimalFreq])
              fh1 == [fh0 EXCEPT ![c.m_minimalFreq] = PopBack(@)]
              fh2 == IF fh1[c.m_minimalFreq] = <<>>
                     THEN MapErase(fh1, c.m_minimalFreq) ELSE fh1
          IN [c EXCEPT !.m_hashmap = MapErase(@, lfu_item.m_key),
                       !.m_freqHashmap = fh2]

\* LFUCache_put that leaves m_minimalFreq as it is when it inserts a new key
LFUCache_put_keepMin(c, key, value) ==
  IF getCapacity(c) = 0 THEN c
  ELSE IF key \notin DOMAIN c.m_hashmap
  THEN LET c1 == IF Cardinality(DOMAIN c.m_hashmap) = getCapacity(c)
                 THEN LFUCache_evict(c) ELSE c
           fh2 == MapIndex(c1.m_freqHashmap, 1)
           fh3 == [fh2 EXCEPT ![1] =
                     EmplaceFront(@, Node(FreshId(FreqIds(fh2)), key, value, 1))]
       IN IF c1.ub THEN c1
          ELSE [c1 EXCEPT !.m_freqHashmap = fh3,
                          !.m_hashmap = MapSet(@, key, ListBegin(fh3[1]))]
  ELSE IF c.m_hashmap[key] \notin FreqIds(c.m_freqHashmap)
  THEN [c EXCEPT !.ub = TRUE]
  ELSE LFUCache_promote(c, key, value)

\* LFUCache_put whose update stores the value in place and leaves the frequency
LFUCache_put_noBump(c, key, value) ==
  IF getCapacity(c) = 0 THEN c
  ELSE IF key \notin DOMAIN c.m_hashmap
  THEN LET c1 == IF Cardinality(DOMAIN c.m_hashmap) = getCapacity(c)
                 THEN LFUCache_evict(c) ELSE c
           fh2 == MapIndex(c1.m_freqHashmap, 1)
           fh3 == [fh2 EXCEPT ![1] =
                     EmplaceFront(@, Node(FreshId(FreqIds(fh2)), key, value, 1))]
       IN IF c1.ub THEN c1
          ELSE [c1 EXCEPT !.m_minimalFreq = 1,
                          !.m_freqHashmap = fh3,
                          !.m_hashmap = MapSet(@, key, ListBegin(fh3[1]))]
  ELSE [c EXCEPT !.m_freqHashmap =
          [f \in DOMAIN @ |-> [i \in 1..Len(@[f]) |->
             IF @[f][i].m_key = key THEN [@[f][i] EXCEPT !.m_value = value] ELSE @[f][i]]]]

\* LFUCache_put whose capacity-0 return is taken for keys that are not stored only
LFUCache_put_zeroUpdates(c, key, value) ==
  IF key \notin DOMAIN c.m_hashmap
  THEN IF getCapacity(c) = 0 THEN c
       ELSE LET c1 == IF Cardinality(DOMAIN c.m_hashmap) = getCapacity(c)
                      THEN LFUCache_evict(c) ELSE c
                fh2 == MapIndex(c1.m_freqHashmap, 1)
                fh3 == [fh2 EXCEPT ![1] =
                          EmplaceFront(@, Node(FreshId(FreqIds(fh2)), key, value, 1))]
            IN IF c1.ub THEN c1
               ELSE [c1 EXCEPT !.m_minimalFreq = 1,
                               !.m_freqHashmap = fh3,
                               !.m_hashmap = MapSet(@, key, ListBegin(fh3[1]))]
  ELSE IF c.m_hashmap[key] \notin FreqIds(c.m_freqHashmap)
  THEN [c EXCEPT !.ub = TRUE]
  ELSE LFUCache_promote(c, key, value)

LFUCache_put(c, key, value) ==
  IF getCapacity(c) = 0 THEN c
  ELSE IF key \notin DOMAIN c.m_hashmap
  THEN LET c1 == IF Cardinality(DOMAIN c.m_hashmap) = getCapacity(c)
                 THEN LFUCache_evict(c) ELSE c
           fh2 == MapIndex(c1.m_freqHashmap, 1)
           fh3 == [fh2 EXCEPT ![1] =
                     EmplaceFront(@, Node(FreshId(FreqIds(fh2)), key, value, 1))]
       IN IF c1.ub THEN c1
          ELSE [c1 EXCEPT !.m_minimalFreq = 1,
                          !.m_freqHashmap = fh3,
                          !.m_hashmap = MapSet(@, key, ListBegin(fh3[1]))]
  ELSE IF c.m_hashmap[key] \notin FreqIds(c.m_freqHashmap)
  THEN [c EXCEPT !.ub = TRUE]
  ELSE LFUCache_promote(c, key, value)

LFUCache_clear(c) ==
  [c EXCEPT !.m_minimalFreq = 0, !.m_hashmap = EmptyMap, !.m_freqHashmap = EmptyMap]

\* ----- node addresses up to renaming ------------------------------------------------
RECURSIVE SumLen(_, _)
SumLen(fh, S) ==
  IF S = {} THEN 0
  ELSE LET f == CHOOSE x \in S : TRUE IN Len(fh[f]) + SumLen(fh, S \ {f})

\* nodes in the buckets of smaller frequency
Offset(fh, f) == SumLen(fh, {g \in DOMAIN fh : g < f})

CanonId(c, it) ==
  IF it \in Ids(c.m_list)
  THEN CHOOSE i \in 1..Len(c.m_list) : c.m_list[i].id = it
  ELSE IF it \in FreqIds(c.m_freqHashmap)
  THEN LET f == CHOOSE g \in DOMAIN c.m_freqHashmap : it \in Ids(c.m_freqHashmap[g])
       IN Offset(c.m_freqHashmap, f)
            + (CHOOSE i \in 1..Len(c.m_freqHashmap[f]) : c.m_freqHashmap[f][i].id = it)
  ELSE Dangling

Canon(c) ==
  [c EXCEPT
     !.m_list = [i \in 1..Len(c.m_list) |-> [c.m_list[i] EXCEPT !.id = i]],
     !.m_freqHashmap = [f \in DOMAIN c.m_freqHashmap |->
        [i \in 1..Len(c.m_freqHashmap[f]) |->
           [c.m_freqHashmap[f][i] EXCEPT !.id = Offset(c.m_freqHashmap, f) + i]]],
     !.m_hashmap = [k \in DOMAIN c.m_hashmap |-> CanonId(c, c.m_hashmap[k])]]

\* ----- what the cache holds, read without calling get ---------------------------------
Stored == DOMAIN m_hashmap
Size == Cardinality(DOMAIN m_hashmap)
\* keys of the list policies, front first
ListKeys == [i \in 1..Len(m_list) |-> m_list[i].first]

\* ----- history variables ------------------------------------------------------------
SeqRemove(s, k) == SelectSeq(s, LAMBDA x : x # k)
SeqKeep(s, S) == SelectSeq(s, LAMBDA x : x \in S)

NoCall == [op |-> "new", key |-> 0, value |-> 0, hit |-> FALSE, thrown |-> FALSE,
           ret |-> 0, removed |-> {}, added |-> {}, cap |-> 0, tied |-> FALSE]

\* a get that returned, or a put that was not the capacity-0 no-op
Touches(op, thrown) == (op = "get" /\ ~thrown) \/ (op = "put" /\ m_capacity # 0)

\* The step of one call: c2 is the object after the call.
Call(op, key, value, c2, thrown, ret) ==
  \E cc \in {Canon(c2)} :
  LET now == DOMAIN cc.m_hashmap
      touched == Touches(op, thrown)
  IN /\ m_capacity' = cc.m_capacity
     /\ m_list' = cc.m_list
     /\ m_hashmap' = cc.m_hashmap
     /\ m_minimalFreq' = cc.m_minimalFreq
     /\ m_freqHashmap' = cc.m_freqHashmap
     /\ ub' = cc.ub
     /\ policy' = policy
     /\ last' = [op |-> op, key |-> key, value |-> value, hit |-> key \in Stored,
                 thrown |-> thrown, ret |-> ret, removed |-> Stored \ now,
                 added |-> now \ Stored, cap |-> getCapacity(This),
                 tied |-> policy = "LFU" /\ \E k \in Stored \ now, j \in Stored \cap now :
                                             count[k] = count[j]]
     /\ order' = IF policy \in {"LRU", "LFU"}
                 THEN SeqKeep(IF touched THEN Append(SeqRemove(order, key), key) ELSE order, now)
                 ELSE order
     /\ inserted' = IF policy \in {"FILO", "FIFO"}
                    THEN SeqKeep(IF op = "put" /\ touched /\ key \notin Stored
                                 THEN Append(inserted, key) ELSE inserted, now)
                    ELSE inserted
     /\ count' = IF policy = "LFU"
                 THEN [k \in now |->
                         IF k = key /\ touched
                         THEN (IF k \in DOMAIN count THEN count[k] + 1 ELSE 1)
                         ELSE IF k \in DOMAIN count THEN count[k] ELSE 0]
                 ELSE count

\* ----- the state machine ---------------------------------------------------------------
Init ==
  /\ policy \in Policies
  /\ m_capacity \in Capacities
  /\ m_list = <<>>
  /\ m_hashmap = EmptyMap
  /\ m_minimalFreq = 0
  /\ m_freqHashmap = EmptyMap
  /\ ub = FALSE
  /\ last = NoCall
  /\ order = <<>>
  /\ inserted = <<>>
  /\ count = EmptyMap

GetStep(got, key) == \E r \in {got} : Call("get", key, 0, r.c, r.thrown, r.value)

FILOGet == policy = "FILO" /\ ~ub /\ \E key \in Keys : GetStep(FILOCache_get(This, key), key)
FILOPut == policy = "FILO" /\ ~ub /\ \E key \in Keys, value \in Values :
             Call("put", key, value, FILOCache_put(This, key, value), FALSE, 0)
FILOClear == policy = "FILO" /\ ~ub /\ Call("clear", 0, 0, FILOCache_clear(This), FALSE, 0)

FIFOGet == policy = "FIFO" /\ ~ub /\ \E key \in Keys : GetStep(FIFOCache_get(This, key), key)
FIFOPut == policy = "FIFO" /\ ~ub /\ \E key \in Keys, value \in Values :
             Call("put", key, value, FIFOCache_put(This, key, value), FALSE, 0)
FIFOClear == policy = "FIFO" /\ ~ub /\ Call("clear", 0, 0, FIFOCache_clear(This), FALSE, 0)

LRUGet == policy = "LRU" /\ ~ub /\ \E key \in Keys : GetStep(LRUCache_get(This, key), key)
LRUPut == policy = "LRU" /\ ~ub /\ \E key \in Keys, value \in Values :
            Call("put", key, value, LRUCache_put(This, key, value), FALSE, 0)
LRUClear == policy = "LRU" /\ ~ub /\ Call("clear", 0, 0, LRUCache_clear(This), FALSE, 0)

\* the int frequency of a node is capped at MaxFreq: a call that would raise it
\* further is left out
FreqBelowMax(key) ==
  key \in Stored =>
    /\ \A n \in FreqNodes(m_freqHashmap) : n.m_key = key => n.m_freq < MaxFreq
    /\ key \in DOMAIN count => count[key] < MaxFreq

LFUGet == policy = "LFU" /\ ~ub /\ \E key \in Keys :
            FreqBelowMax(key) /\ GetStep(LFUCache_get(This, key), key)
LFUPut == policy = "LFU" /\ ~ub /\ \E key \in Keys, value \in Values :
            /\ (m_capacity # 0 => FreqBelowMax(key))
            /\ Call("put", key, value, LFUCache_put(This, key, value), FALSE, 0)
LFUClear == policy = "LFU" /\ ~ub /\ Call("clear", 0, 0, LFUCache_clear(This), FALSE, 0)

SetCapacity == ~ub /\ \E capacity \in Capacities :
                 Call("setCapacity", 0, capacity, setCapacity(This, capacity), FALSE, 0)

FixedNext ==
  \/ FILOGet \/ FILOPut \/ FILOClear
  \/ FIFOGet \/ FIFOPut \/ FIFOClear
  \/ LRUGet \/ LRUPut \/ LRUClear
  \/ LFUGet \/ LFUPut \/ LFUClear

Next == FixedNext \/ SetCapacity

\* every sequence of calls, setCapacity included
Spec == Init /\ [][Next]_vars

\* every sequence of put / get / clear: the capacity stays as constructed
FixedSpec == Init /\ [][FixedNext]_vars

\* ----- reading through the interface ----------------------------------------------------
\* the virtual call c.get(key)
Cache_get(c, key) ==
  CASE policy = "FILO" -> FILOCache_get(c, key)
    [] policy = "FIFO" -> FIFOCache_get(c, key)
    [] policy = "LFU" -> LFUCache_get(c, key)
    [] policy = "LRU" -> LRUCache_get(c, key)

\* a get of the key of the last call would now return the value of that call
ReadBack ==
  LET r == Cache_get(This, last.key)
  IN ~r.thrown /\ ~r.c.ub /\ r.value = last.value

\* the key the eviction step of a put would erase now (0: nothing is stored)
FIFO_next == IF m_list = <<>> THEN 0 ELSE FIFOCache_victim(This)
FILO_next == IF m_list = <<>> THEN 0 ELSE FILOCache_victim(This)

\* a put of a key that is not stored, made while size = capacity >= 1
FullMiss(key) == key \notin Stored /\ m_capacity >= 1 /\ Size = m_capacity

\* LFU: among the stored keys of smallest access count, the one accessed longest ago
LeastFrequent ==
  LET least == CHOOSE m \in {count[k] : k \in Stored} : \A k \in Stored : count[k] >= m
  IN SeqKeep(order, {k \in Stored : count[k] = least})[1]

\* ----- claims -----------------------------------------------------------------------------

\* C1: LRUCache with a fixed capacity: a put of a key that is not stored while
\* size = capacity >= 1 removes exactly the stored key whose last successful get or
\* put is the oldest; every other put removes no key.
C1_LRUEvictsLeastRecentlyUsed ==
  [][(policy = "LRU" /\ last'.op = "put") =>
       IF FullMiss(last'.key)
       THEN last'.removed = {Head(order)}
       ELSE last'.removed = {}]_vars

\* put 1, put 2, get 1, put 3 with capacity 2 has removed key 2, not key 1
C1_Witness ==
  /\ policy = "LRU" /\ m_capacity = 2
  /\ last.op = "put" /\ last.key = 3 /\ last.removed = {2}
  /\ ListKeys = <<3, 1>> /\ order = <<1, 3>>

\* C2: LFUCache with a fixed capacity: a put of a key that is not stored while
\* size = capacity >= 1 removes exactly one key, a key of smallest access count, and
\* among the keys of that count the one whose last access is the oldest.
C2_LFUEvictsLeastFrequent ==
  [][(policy = "LFU" /\ last'.op = "put" /\ FullMiss(last'.key)) =>
       last'.removed = {LeastFrequent}]_vars

\* put 1, put 2, get 1, put 3, get 3, put 2 with capacity 2: keys 1 and 3 both have
\* count 2 and key 1, accessed longer ago, has been removed
C2_Witness ==
  /\ policy = "LFU" /\ m_capacity = 2
  /\ last.op = "put" /\ last.key = 2 /\ last.removed = {1} /\ last.tied
  /\ Stored = {2, 3} /\ count[3] = 2 /\ count[2] = 1

\* C3: FIFOCache with a fixed capacity: a put of a key that is not stored while
\* size = capacity >= 1 removes exactly the stored key inserted earliest; a
\* successful get and a put on a stored key remove nothing and leave the key that
\* is removed next the same.
C3_FIFOEvictsOldestInserted ==
  [][(policy = "FIFO" /\ last'.op \in {"get", "put"}) =>
       /\ (last'.op = "put" /\ FullMiss(last'.key)) => last'.removed = {Head(inserted)}
       /\ last'.key \in Stored => (last'.removed = {} /\ FIFO_next' = FIFO_next)]_vars

\* capacity 2: key 1 was inserted first, key 2 was then overwritten with value 2,
\* and the put of key 3 has removed key 1
C3_Witness ==
  /\ policy = "FIFO" /\ m_capacity = 2
  /\ last.op = "put" /\ last.key = 3 /\ last.removed = {1}
  /\ ListKeys = <<2, 3>> /\ m_list[1].second = 2

\* C4: FILOCache with a fixed capacity: a put of a key that is not stored while
\* size = capacity >= 1 removes exactly the stored key inserted most recently and
\* makes the new key the one removed next; a get and a put on a stored key remove
\* nothing and leave the key that is removed next the same.
C4_FILOEvictsNewestInserted ==
  [][(policy = "FILO" /\ last'.op \in {"get", "put"}) =>
       /\ (last'.op = "put" /\ FullMiss(last'.key)) =>
            /\ last'.removed = {inserted[Len(inserted)]}
            /\ FILO_next' = last'.key
            /\ inserted'[Len(inserted')] = last'.key
       /\ last'.key \in Stored => (last'.removed = {} /\ FILO_next' = FILO_next)]_vars

\* capacity 2: put 1, put 2, put 3 has removed key 2 and kept key 1
C4_Witness ==
  /\ policy = "FILO" /\ m_capacity = 2
  /\ last.op = "put" /\ last.key = 3 /\ last.removed = {2}
  /\ ListKeys = <<1, 3>>

\* C5: with the capacity unchanged since construction, the number of stored keys
\* is at most the capacity after every put, get and clear, in each policy.
C5_SizeAtMostCapacity ==
  /\ Size <= m_capacity
  /\ Len(m_list) + Cardinality(FreqNodes(m_freqHashmap)) <= m_capacity

\* a full cache right after a put that had to evict
C5_Witness ==
  /\ last.op = "put" /\ last.removed # {}
  /\ m_capacity = 2 /\ Size = m_capacity

\* C6: after setCapacity(n) with 1 <= n < size, the next put of a key that is not
\* stored evicts and does not let the cache grow further.
C6_ShrinkEnforcedByNextPut ==
  [][(last'.op = "put" /\ last'.key \notin Stored /\ 1 <= m_capacity /\ m_capacity < Size) =>
       (last'.removed # {} /\ Size' <= Size)]_vars

\* C7: in every state with capacity >= 1, a get(k) right after put(k, v) succeeds
\* and returns v.
C7_PutThenGet ==
  (last.op = "put" /\ m_capacity >= 1) => ReadBack

\* a put of a new key that had to evict another key
C7_Witness ==
  /\ last.op = "put" /\ m_capacity >= 1 /\ last.removed # {}
  /\ last.key \in Stored /\ ReadBack

\* C8: with capacity >= 1, a put(k, v2) on a stored key k leaves the set of stored
\* keys the same and makes the next get(k) return v2.
C8_OverwriteKeepsKeys ==
  (last.op = "put" /\ last.hit /\ m_capacity >= 1) =>
    (last.removed = {} /\ last.added = {} /\ ReadBack)

\* a stored key has been overwritten in a cache that holds more keys than its capacity
C8_Witness ==
  /\ last.op = "put" /\ last.hit /\ m_capacity >= 1 /\ Size > m_capacity
  /\ last.value = 2 /\ ReadBack

\* C9: get(k) throws exactly when k is not stored, and a get that throws changes
\* nothing of the cache.
C9_GetThrowsIffAbsent ==
  [][last'.op = "get" =>
       /\ last'.thrown <=> last'.key \notin Stored
       /\ last'.thrown => (UNCHANGED progVars /\ ~ub')]_vars

\* a get has thrown on a cache that holds other keys
C9_Witness ==
  /\ last.op = "get" /\ last.thrown /\ ~last.hit
  /\ Size >= 1 /\ last.key \notin Stored

\* C10: a cache constructed with capacity 0 stores no key after any sequence of
\* put / get / clear, and a get of any key throws.
C10_ZeroCapacityStoresNothing ==
  m_capacity = 0 =>
    /\ Stored = {} /\ m_list = <<>> /\ m_freqHashmap = EmptyMap
    /\ \A key \in Keys : Cache_get(This, key).thrown
    /\ last.op = "get" => last.thrown

\* a put has been made on a cache of capacity 0
C10_Witness ==
  m_capacity = 0 /\ last.op = "put" /\ last.key \in Keys /\ Stored = {}

\* C11: right after clear() a get of every key throws, getCapacity() returns what it
\* returned before the clear, and a key that is not stored becomes stored only by a
\* put of that key.
C11_ClearEmptiesKeepsCapacity ==
  /\ last.op = "clear" =>
       /\ \A key \in Keys : Cache_get(This, key).thrown
       /\ getCapacity(This) = last.cap
  /\ last.added # {} => (last.op = "put" /\ last.added = {last.key})

\* a clear has removed two stored keys
C11_Witness ==
  /\ last.op = "clear" /\ Cardinality(last.removed) = 2
  /\ m_capacity = 2 /\ Stored = {}

\* number of stored keys before the last call
SizeBefore == Size - Cardinality(last.added) + Cardinality(last.removed)

\* the sequence the eviction step of a put would take its victim from is non-empty
EvictionSourceNonEmpty ==
  IF policy = "LFU"
  THEN m_minimalFreq \in DOMAIN m_freqHashmap /\ m_freqHashmap[m_minimalFreq] # <<>>
  ELSE m_list # <<>>

\* C12: put never fails, also after setCapacity: it is a no-op (capacity 0), an
\* update in place, an insert or an evict-then-insert, and in every state in which
\* its eviction step can run (size = capacity >= 1) the sequence it removes from is
\* non-empty (LFU: the bucket of m_minimalFreq exists and is non-empty).
C12_PutNeverFails ==
  /\ ~ub
  /\ (m_capacity >= 1 /\ Size = m_capacity) => EvictionSourceNonEmpty
  /\ last.op = "put" =>
       IF last.cap = 0 \/ last.hit
       THEN last.added = {} /\ last.removed = {}
       ELSE /\ last.added = {last.key}
            /\ Cardinality(last.removed) <= 1
            /\ last.removed # {} => SizeBefore = last.cap

\* capacity 2: an LFU put has evicted from the bucket of frequency 2 (the evicted
\* key and the key that stayed both had count 2)
C12_Witness ==
  /\ policy = "LFU" /\ m_capacity = 2 /\ ~ub
  /\ last.op = "put" /\ ~last.hit /\ last.removed # {} /\ last.tied
  /\ \E k \in Stored \ {last.key} : count[k] = 2

\* C13: setCapacity(n) changes the capacity and nothing else: the lists, the maps
\* and m_minimalFreq are as before, and a get of any key gives on the object with
\* the new capacity what it gives on the object before the call.
C13_SetCapacityChangesOnlyCapacity ==
  [][last'.op = "setCapacity" =>
       /\ m_capacity' = last'.value
       /\ m_list' = m_list /\ m_hashmap' = m_hashmap
       /\ m_minimalFreq' = m_minimalFreq /\ m_freqHashmap' = m_freqHashmap
       /\ \A key \in Keys :
            LET old == Cache_get(This, key)
                new == Cache_get(setCapacity(This, last'.value), key)
            IN old.thrown = new.thrown /\ old.value = new.value]_vars

\* setCapacity(0) has been called on a cache holding two keys, which it still holds
C13_Witness ==
  /\ last.op = "setCapacity" /\ last.value = 0 /\ last.cap = 2
  /\ m_capacity = 0 /\ Size = 2

\* LFU: the smallest frequency held by an entry
SmallestFreq ==
  CHOOSE m \in {n.m_freq : n \in FreqNodes(m_freqHashmap)} :
    \A n \in FreqNodes(m_freqHashmap) : n.m_freq >= m

\* C14: LFUCache: in every state in which keys are stored, m_minimalFreq is the
\* smallest frequency held by a stored entry; right after the insertion of a new
\* key it is 1.
C14_MinimalFreqIsSmallest ==
  policy = "LFU" =>
    /\ Stored # {} => (FreqNodes(m_freqHashmap) # {} /\ m_minimalFreq = SmallestFreq)
    /\ (last.op = "put" /\ ~last.hit /\ last.cap >= 1) => m_minimalFreq = 1

\* put 1, put 2, get 1, get 2: the second get has emptied bucket 1 and raised
\* m_minimalFreq from 1 to 2
C14_Witness ==
  /\ policy = "LFU" /\ last.op = "get" /\ ~last.thrown
  /\ Size = 2 /\ m_minimalFreq = 2 /\ DOMAIN m_freqHashmap = {2}

\* C15: LFUCache: after every call the frequency map holds no frequency whose list
\* is empty.
C15_NoEmptyBucket ==
  \A f \in DOMAIN m_freqHashmap : m_freqHashmap[f] # <<>>

\* the only stored key has been promoted from frequency 2 to 3 by a get: bucket 2,
\* which held it alone, is gone
C15_Witness ==
  /\ policy = "LFU" /\ last.op = "get" /\ ~last.thrown
  /\ Stored = {last.key} /\ count[last.key] = 3
  /\ DOMAIN m_freqHashmap = {3}

\* LFU: the places <<frequency, index>> of the nodes in the frequency map
FreqPlaces ==
  UNION {{<<f, i>> : i \in 1..Len(m_freqHashmap[f])} : f \in DOMAIN m_freqHashmap}

\* C16: LFUCache: after every call each stored key has exactly one node in the
\* frequency map, the m_freq of that node is the frequency of the bucket it lies in,
\* and the iterator m_hashmap holds for the key points to that node and to no other.
C16_EntryInItsBucket ==
  policy = "LFU" =>
    /\ \A key \in Stored :
         \E p \in FreqPlaces :
           /\ m_freqHashmap[p[1]][p[2]].m_key = key
           /\ m_freqHashmap[p[1]][p[2]].m_freq = p[1]
           /\ m_freqHashmap[p[1]][p[2]].id = m_hashmap[key]
           /\ \A q \in FreqPlaces \ {p} :
                /\ m_freqHashmap[q[1]][q[2]].m_key # key
                /\ m_freqHashmap[q[1]][q[2]].id # m_hashmap[key]
    /\ \A p \in FreqPlaces : m_freqHashmap[p[1]][p[2]].m_key \in Stored

\* after a get, two stored keys lie in the buckets of frequency 1 and 2
C16_Witness ==
  /\ policy = "LFU" /\ last.op = "get" /\ ~last.thrown
  /\ Size = 2 /\ DOMAIN m_freqHashmap = {1, 2}
  /\ m_freqHashmap[2][1].m_key = last.key

\* C17: in every policy, after every call the keys of the index map are the keys
\* of the entries of the sequence(s), no key has two entries, and the iterator the
\* index map holds for a key points to the entry carrying that key.
C17_IndexMatchesEntries ==
  IF policy = "LFU"
  THEN /\ {n.m_key : n \in FreqNodes(m_freqHashmap)} = Stored
       /\ Cardinality(FreqPlaces) = Size
       /\ \A key \in Stored :
            /\ m_hashmap[key] \in FreqIds(m_freqHashmap)
            /\ DerefFreq(m_freqHashmap, m_hashmap[key]).m_key = key
  ELSE /\ {m_list[i].first : i \in 1..Len(m_list)} = Stored
       /\ Len(m_list) = Size
       /\ \A key \in Stored :
            /\ m_hashmap[key] \in Ids(m_list)
            /\ Deref(m_list, m_hashmap[key]).first = key

\* an LRU put has refreshed a stored key: its entry is at the front, the other
\* key's entry behind it
C17_Witness ==
  /\ policy = "LRU" /\ last.op = "put" /\ last.hit
  /\ Size = 2 /\ Len(m_list) = 2 /\ m_list[1].first = last.key

\* LFU: the frequency of a stored key, read through its iterator
FreqOf(key) == DerefFreq(m_freqHashmap, m_hashmap[key]).m_freq

\* C18: LFUCache: the frequency of a stored key is 1 plus the number of gets that
\* returned and puts that overwrote it since it was last inserted as a new key (a
\* put made while the capacity is 0 overwrites nothing and is not counted).
C18_FrequencyCountsAccesses ==
  policy = "LFU" =>
    \A key \in Stored :
      /\ m_hashmap[key] \in FreqIds(m_freqHashmap)
      /\ key \in DOMAIN count
      /\ FreqOf(key) = count[key]

\* a stored key has reached frequency 3 by an overwriting put while another key
\* is still at frequency 1
C18_Witness ==
  /\ policy = "LFU" /\ last.op = "put" /\ last.hit /\ last.cap >= 1
  /\ Size = 2 /\ FreqOf(last.key) = 3 /\ count[last.key] = 3
  /\ \E key \in Stored : FreqOf(key) = 1

\* one step of a FIFO or FILO cache, read from the call recorded in last'
HitStepKeepsOrder ==
  policy \in {"FIFO", "FILO"} =>
       /\ (last'.op = "get" /\ ~last'.thrown) =>
            /\ UNCHANGED <<m_capacity, m_list, m_hashmap, ub, inserted>>
            /\ last'.key \in Stored
       /\ (last'.op = "put" /\ last'.key \in Stored) =>
            /\ UNCHANGED <<m_capacity, m_hashmap, ub, inserted>>
            /\ Len(m_list') = Len(m_list)
            /\ ListKeys' = ListKeys
            /\ \A i \in 1..Len(m_list) :
                 m_list'[i] = IF m_list[i].first = last'.key /\ m_capacity # 0
                              THEN [m_list[i] EXCEPT !.second = last'.value]
                              ELSE m_list[i]

\* C19: FIFOCache and FILOCache: a get that returned changes nothing in the cache,
\* and a put on a stored key changes at most the value of that key's node: the
\* index, the capacity, the other nodes and the order of the list stay as they were.
C19_HitKeepsInsertionOrder == [][HitStepKeepsOrder]_vars

\* a put has overwritten the value of the key inserted first while two keys are
\* stored, and that key is still first in insertion order
C19_Witness ==
  /\ policy \in {"FIFO", "FILO"} /\ last.op = "put" /\ last.hit /\ last.cap >= 1
  /\ Size = 2 /\ ListKeys[1] = last.key /\ inserted[1] = last.key
  /\ m_list[1].second = last.value

\* C20: in every policy the set of stored keys changes only by a put of a key that
\* is not stored, made at a capacity of 1 or more (it adds that key and removes
\* exactly one other key when size = capacity, none otherwise) and by clear (it
\* removes every key); get, a put on a stored key, a put at capacity 0 and
\* setCapacity add and remove nothing.
C20_KeySetChanges ==
  /\ (last.op = "put" /\ ~last.hit /\ last.cap >= 1) =>
       /\ last.added = {last.key}
       /\ last.key \notin last.removed
       /\ Cardinality(last.removed) = IF SizeBefore = last.cap THEN 1 ELSE 0
  /\ last.op = "clear" => Stored = {} /\ last.added = {}
  /\ (\/ last.op \in {"new", "get", "setCapacity"}
      \/ last.op = "put" /\ (last.hit \/ last.cap = 0)) =>
       last.added = {} /\ last.removed = {}

\* a put of a new key made while more keys were stored than the capacity of 1
\* allows: it added the key and removed nothing
C20_Witness ==
  /\ last.op = "put" /\ ~last.hit /\ last.cap = 1 /\ SizeBefore = 2
  /\ last.added = {last.key} /\ last.removed = {} /\ Size = 3

\* one step of a put made while the capacity is 0, read from the call recorded in last'
ZeroCapacityPutStep ==
  (last'.op = "put" /\ m_capacity = 0) =>
    /\ UNCHANGED <<m_capacity, m_list, m_hashmap, m_minimalFreq, m_freqHashmap, ub>>
    /\ UNCHANGED <<order, inserted, count>>
    /\ last'.added = {} /\ last'.removed = {}

\* C21: in every policy a put made while the capacity is 0 changes nothing, also
\* when entries are still stored after setCapacity(0): the index, the list and its
\* order, the values, the LFU buckets with their frequencies and m_minimalFreq are
\* all as they were before the call.
C21_ZeroCapacityPutIsNoOp == [][ZeroCapacityPutStep]_vars

\* a put on a stored key was made at capacity 0 while two keys were stored
C21_Witness ==
  /\ last.op = "put" /\ last.cap = 0 /\ m_capacity = 0 /\ last.hit
  /\ Size = 2 /\ last.key \in Stored

\* one step of a full FILO cache that is not a clear, read from the call recorded
\* in last': the keys inserted before the newest one stay stored, in their order
FullFILOStep ==
  (policy = "FILO" /\ m_capacity >= 1 /\ Size = m_capacity /\ last'.op # "clear") =>
    /\ Size' = m_capacity'
    /\ Len(inserted) = m_capacity
    /\ \A i \in 1..(m_capacity - 1) :
         /\ inserted[i] \in Stored'
         /\ inserted'[i] = inserted[i]
         /\ ListKeys'[i] = inserted[i]
    /\ last'.removed \subseteq {inserted[m_capacity]}
    /\ last'.removed # {} => last'.added = {last'.key} /\ inserted'[m_capacity] = last'.key

\* C22: FILOCache with a fixed capacity c >= 1: once c keys are stored, no put and
\* no get removes any of the c-1 keys inserted first; a put replaces the most
\* recently inserted key only, and the cache stays full until clear.
C22_FILOKeepsFirstKeys == [][FullFILOStep]_vars

\* a put of a new key into a full FILO cache of capacity 2 has replaced the newest
\* key, and the key inserted first is still stored
C22_Witness ==
  /\ policy = "FILO" /\ m_capacity = 2 /\ last.cap = 2 /\ Size = 2
  /\ last.op = "put" /\ ~last.hit /\ Cardinality(last.removed) = 1
  /\ inserted[1] \in Stored /\ inserted[1] \notin last.removed
  /\ inserted[2] = last.key /\ ListKeys[1] = inserted[1]

====
